---- MODULE Spec2Model ----
(***************************************************************************)
(* Model of the clinic appointment voice agent (backend/db.py,             *)
(* backend/tools.py, backend/agent.py).                                    *)
(*                                                                         *)
(* The persistent store (users, appointments, session_memory) is shared by *)
(* every call.  Each call owns one AgentTools instance; a tool handler is  *)
(* a sequence of store operations, each atomic at the store, and handlers  *)
(* of different calls interleave between store operations.  The entrypoint *)
(* coroutine of a call is modelled by its position (the await it is        *)
(* suspended at).                                                          *)
(***************************************************************************)
EXTENDS Integers, Sequences, FiniteSets, TLC

VARIABLES
    users,            \* table "users": sequence of rows, id = insertion index
    appointments,     \* table "appointments": sequence of rows, id = insertion index
    session_memory,   \* table "session_memory": session_id -> Absent | Null | user id
    self_user,        \* AgentTools._user of each call
    chat_user_id,     \* PersistentChatContext.user_id of each call
    pc,               \* where the running tool handler of each call is suspended
    call,             \* the tool invocation in progress of each call
    trace,            \* events emitted and store operations made so far by it
    last,             \* the invocation that returned last: what it was given,
                      \* what it returned, what it emitted and did at the store
    ncalls,           \* tool invocations made so far, over all calls
    njobs,            \* session operations made so far by other jobs of a room
    epc,              \* entrypoint: the await the coroutine is suspended at
    env,              \* what the collaborators of this run do (fixed per run)
    clock,            \* time units elapsed in asyncio.wait_for(avatar.start)
    avatar_task,      \* the avatar.start task
    avatar_ready,     \* entrypoint's local avatar_ready
    session_started,  \* session.start has returned
    greeting,         \* session.say of the greeting: none, saying, said
    broadcasts,       \* the (component, status) pairs broadcast so far
    created,          \* create_session has made this call's session record
    deletes,          \* how many times delete_session ran for this call
    chat_ctx,         \* PersistentChatContext of each call: the messages added
    save_tasks,       \* the db.save_message tasks created and not yet run
    messages          \* table "messages": sequence of rows

toolvars == <<self_user, chat_user_id, pc, call, trace, last, ncalls, njobs>>

seqvars == <<epc, env, clock, avatar_task, avatar_ready, session_started,
             greeting, broadcasts, created, deletes>>

chatvars == <<chat_ctx, save_tasks, messages>>

vars == <<users, appointments, session_memory, toolvars, seqvars, chatvars>>

-----------------------------------------------------------------------------
(* Bounds of the model *)

MaxAppts == 2
MaxCalls == 5
MaxMsgs == 3

(* Program constants *)

DefaultDuration == 30
AvatarTimeout == 20

-----------------------------------------------------------------------------
(* Domains *)

Sessions == {"room1", "room2"}

\* Phone numbers and e-mail addresses are both plain strings in the program:
\* one domain of identifiers serves for both.
Identifiers == {1, 2, 3}

Dates == {1}
Slots == {1, 2}

\* The timestamp string f"{date}T{time_slot}:00" (db.py:134), as the index of
\* the slot in the calendar.
DatetimeStr(date, time_slot) == (date - 1) * Cardinality(Slots) + time_slot

Timestamps == {DatetimeStr(d, t) : d \in Dates, t \in Slots}

\* Appointment ids a caller can name: every id the store can hold and one more.
ApptIds == 1..(MaxAppts + 1)

Null == 0
Absent == -1

NoUser == [id |-> Null, contact_number |-> Null, email |-> Null]

-----------------------------------------------------------------------------
(* db.py: operations of the persistent store, as functions of the tables *)

\* response.data[0] of a select: the first of the rows matched (Null: none).
FirstOf(matched) ==
    IF matched = {} THEN Null
    ELSE CHOOSE i \in matched : \A j \in matched : i <= j

\* Mutant: the first lookup of identify_user goes by the e-mail column.
get_user_by_contact_in_email(u, contact_number) ==
    LET i == FirstOf({k \in 1..Len(u) : u[k].email = contact_number})
    IN  IF i = Null THEN NoUser ELSE u[i]

get_user_by_contact(u, contact_number) ==
    LET i == FirstOf({k \in 1..Len(u) : u[k].contact_number = contact_number})
    IN  IF i = Null THEN NoUser ELSE u[i]

get_user_by_email(u, email) ==
    LET i == FirstOf({k \in 1..Len(u) : u[k].email = email})
    IN  IF i = Null THEN NoUser ELSE u[i]

get_user_by_id(u, user_id) ==
    LET i == FirstOf({k \in 1..Len(u) : u[k].id = user_id})
    IN  IF i = Null THEN NoUser ELSE u[i]

\* The users table takes contact_number as a unique key.
users_contact_conflict(u, contact_number) ==
    \E i \in 1..Len(u) : u[i].contact_number = contact_number

create_user(u, contact_number, email) ==
    Append(u, [id |-> Len(u) + 1, contact_number |-> contact_number,
               email |-> email])

\* response.data of a select: the rows of tbl at the indices matched, from
\* index i on, in table order.
RECURSIVE RowsFrom(_, _, _)
RowsFrom(tbl, matched, i) ==
    IF i > Len(tbl) THEN <<>>
    ELSE IF i \in matched THEN <<tbl[i]>> \o RowsFrom(tbl, matched, i + 1)
    ELSE RowsFrom(tbl, matched, i + 1)

\* Mutant: the select without .eq("contact_number", ...).
get_appointments_any_owner(u, a, user_id) ==
    LET user == get_user_by_id(u, user_id)
    IN  IF user = NoUser THEN <<>>
        ELSE LET rows == RowsFrom(a, {i \in 1..Len(a) : a[i].status = "booked"}, 1)
             IN  [k \in 1..Len(rows) |->
                    [id |-> rows[k].id, start_time |-> rows[k].appointment_time,
                     status |-> rows[k].status, details |-> rows[k].details]]

\* Mutant: the select without .eq("status", "booked").
get_appointments_any_status(u, a, user_id) ==
    LET user == get_user_by_id(u, user_id)
    IN  IF user = NoUser THEN <<>>
        ELSE LET rows == RowsFrom(a, {i \in 1..Len(a) :
                                         a[i].contact_number = user.contact_number}, 1)
             IN  [k \in 1..Len(rows) |->
                    [id |-> rows[k].id, start_time |-> rows[k].appointment_time,
                     status |-> rows[k].status, details |-> rows[k].details]]

get_appointments(u, a, user_id) ==
    LET user == get_user_by_id(u, user_id)
    IN  IF user = NoUser THEN <<>>
        ELSE LET rows == RowsFrom(a, {i \in 1..Len(a) :
                                         a[i].contact_number = user.contact_number
                                         /\ a[i].status = "booked"}, 1)
             IN  [k \in 1..Len(rows) |->
                    [id |-> rows[k].id, start_time |-> rows[k].appointment_time,
                     status |-> rows[k].status, details |-> rows[k].details]]

\* create_appointment: the inserted row, or NoRow when the user is unknown.
NoRow == [id |-> Null]

create_appointment_row(u, a, user_id, start_time, duration_mins) ==
    LET user == get_user_by_id(u, user_id)
    IN  IF user = NoUser THEN NoRow
        ELSE [id |-> Len(a) + 1,
              contact_number |-> user.contact_number,
              appointment_time |-> start_time,
              details |-> [mins |-> duration_mins, text |-> "minute appointment"],
              status |-> "booked"]

create_appointment(u, a, user_id, start_time, duration_mins) ==
    LET row == create_appointment_row(u, a, user_id, start_time, duration_mins)
    IN  IF row = NoRow THEN a ELSE Append(a, row)

\* Mutant: the update without .eq("status", "booked").
reschedule_matches_any_status(a, appointment_id) ==
    {i \in 1..Len(a) : a[i].id = appointment_id}

\* update(...).eq("id", id).eq("status", "booked"): the rows matched.
reschedule_matches(a, appointment_id) ==
    {i \in 1..Len(a) : a[i].id = appointment_id /\ a[i].status = "booked"}

\* Mutant: the update matches on the id alone and writes status "booked".
reschedule_appointment_rebooks(a, appointment_id, new_time) ==
    [i \in 1..Len(a) |->
        IF a[i].id = appointment_id
        THEN [a[i] EXCEPT !.appointment_time = new_time, !.status = "booked"]
        ELSE a[i]]

\* Mutant: the new time is written to a copy of the row, added to the table.
reschedule_appointment_reinserts(a, appointment_id, new_time) ==
    a \o [k \in 1..Cardinality(reschedule_matches(a, appointment_id)) |->
            [a[appointment_id] EXCEPT !.id = Len(a) + k,
                                      !.appointment_time = new_time]]

reschedule_appointment(a, appointment_id, new_time) ==
    [i \in 1..Len(a) |->
        IF i \in reschedule_matches(a, appointment_id)
        THEN [a[i] EXCEPT !.appointment_time = new_time]
        ELSE a[i]]

\* update({"status": "cancelled"}).eq("id", id): the rows matched.
cancel_matches(a, appointment_id) ==
    {i \in 1..Len(a) : a[i].id = appointment_id}

cancel_appointment(a, appointment_id) ==
    [i \in 1..Len(a) |->
        IF i \in cancel_matches(a, appointment_id)
        THEN [a[i] EXCEPT !.status = "cancelled"]
        ELSE a[i]]

\* Mutant: the select without .eq("status", "booked").
check_availability_any_status(a, date, time_slot) ==
    LET datetime_str == DatetimeStr(date, time_slot)
    IN  {i \in 1..Len(a) : a[i].appointment_time = datetime_str} = {}

check_availability(a, date, time_slot) ==
    LET datetime_str == DatetimeStr(date, time_slot)
    IN  {i \in 1..Len(a) : a[i].appointment_time = datetime_str
                           /\ a[i].status = "booked"} = {}

create_session(sm, session_id) == [sm EXCEPT ![session_id] = Null]

update_session_user(sm, session_id, user_id) ==
    IF sm[session_id] = Absent THEN sm ELSE [sm EXCEPT ![session_id] = user_id]

delete_session(sm, session_id) == [sm EXCEPT ![session_id] = Absent]

-----------------------------------------------------------------------------
(* tools.py: AgentTools *)

GatedOps == {"book_appointment", "reschedule_user_appointment",
             "retrieve_appointments", "cancel_user_appointment"}

Msg(m, n) == [msg |-> m, arg |-> n, appts |-> <<>>]

\* "Please identify the user first ..." (tools.py:211, 236, 260, 285)
IdentifyFirst == Msg("Please identify the user first", 0)

NoCall == [op |-> "(none)", a1 |-> 0, a2 |-> 0, user |-> Null]

\* An invocation: the tool, its arguments, and the id of the user the call
\* is identified as when the tool is invoked (Null: none).
Invocation(s, op, a1, a2) ==
    [op |-> op, a1 |-> a1, a2 |-> a2, user |-> self_user[s].id]

\* The policy engine invokes a tool of call s: the call runs no other handler.
Invoke(s) ==
    /\ pc[s] = "idle"
    /\ ncalls + njobs < MaxCalls
    /\ ncalls' = ncalls + 1
    /\ UNCHANGED <<njobs, chatvars>>

\* The handler of call s, suspended at the store operation `at`, resumes.
Resume(s, at) ==
    /\ pc[s] = at
    /\ UNCHANGED <<ncalls, njobs, chatvars>>

\* The handler of call s returns res to the policy engine, having emitted and
\* done tr.
Return(s, inv, res, tr) ==
    /\ last' = [session |-> s, op |-> inv.op, a1 |-> inv.a1, a2 |-> inv.a2,
                user |-> inv.user, result |-> res, trace |-> tr]
    /\ pc' = [pc EXCEPT ![s] = "idle"]
    /\ call' = [call EXCEPT ![s] = NoCall]
    /\ trace' = [trace EXCEPT ![s] = <<>>]
    /\ UNCHANGED seqvars

\* The handler of call s is suspended at the store operation `at`.
Suspend(s, inv, at, tr) ==
    /\ pc' = [pc EXCEPT ![s] = at]
    /\ call' = [call EXCEPT ![s] = inv]
    /\ trace' = [trace EXCEPT ![s] = tr]
    /\ UNCHANGED <<last, seqvars>>

\* Mutant: cancel_user_appointment without its identity test.
RefusesExceptCancel(s, op) ==
    op # "cancel_user_appointment" /\ self_user[s] = NoUser

\* `if not self._user` (tools.py:210, 235, 259, 284)
Refuses(s, op) == self_user[s] = NoUser

\* An exception has left the handler: the caller gets no string.
Raised == Msg("(raised)", 0)

\* _emit_event (tools.py:27-33) awaits publish_data with no try around it:
\* when the room does not deliver, the exception leaves the handler at its
\* first event, before any store operation.
EmitRaises(s, inv) ==
    /\ Return(s, inv, Raised, <<"emit_failed">>)
    /\ UNCHANGED <<users, appointments, session_memory, self_user, chat_user_id>>

\* A refused invocation: the handler returns at once.
Refuse(s, inv) ==
    /\ Return(s, inv, IdentifyFirst, <<>>)
    /\ UNCHANGED <<users, appointments, session_memory, self_user, chat_user_id>>

identify_user(s, identifier) ==
    /\ Invoke(s)
    /\ LET user == get_user_by_contact(users, identifier)
           inv == Invocation(s, "identify_user", identifier, 0)
       IN  IF ~env.delivers
           THEN EmitRaises(s, inv)
           ELSE /\ IF user # NoUser
                   THEN /\ self_user' = [self_user EXCEPT ![s] = user]
                        /\ Suspend(s, inv, "identify_bind",
                                   <<"tool_call", "store_read">>)
                   ELSE /\ Suspend(s, inv, "identify_email",
                                   <<"tool_call", "store_read">>)
                        /\ UNCHANGED self_user
                /\ UNCHANGED <<users, appointments, session_memory, chat_user_id>>

identify_user_email(s) ==
    /\ Resume(s, "identify_email")
    /\ LET user == get_user_by_email(users, call[s].a1)
       IN  IF user = NoUser
           THEN /\ Return(s, call[s], Msg("No user found", call[s].a1),
                          trace[s] \o <<"store_read", "tool_result">>)
                /\ UNCHANGED self_user
           ELSE /\ self_user' = [self_user EXCEPT ![s] = user]
                /\ Suspend(s, call[s], "identify_bind", trace[s] \o <<"store_read">>)
    /\ UNCHANGED <<users, appointments, session_memory, chat_user_id>>

identify_user_bind(s) ==
    /\ Resume(s, "identify_bind")
    /\ session_memory' = update_session_user(session_memory, s, self_user[s].id)
    /\ chat_user_id' = [chat_user_id EXCEPT ![s] = self_user[s].id]
    /\ Return(s, call[s], Msg("User identified", self_user[s].id),
              trace[s] \o <<"store_write", "tool_result">>)
    /\ UNCHANGED <<users, appointments, self_user>>

create_user_account(s, contact_number, email) ==
    /\ Invoke(s)
    /\ LET inv == Invocation(s, "create_user_account", contact_number, email)
       IN  IF ~env.delivers
           THEN EmitRaises(s, inv)
           ELSE /\ IF users_contact_conflict(users, contact_number)
                   THEN \* the insert raises; the exception leaves the handler
                        /\ Return(s, inv, Raised, <<"tool_call", "store_write">>)
                        /\ UNCHANGED <<users, self_user, chat_user_id>>
                   ELSE /\ users' = create_user(users, contact_number, email)
                        /\ self_user' = [self_user EXCEPT ![s] = users'[Len(users')]]
                        /\ chat_user_id' =
                              [chat_user_id EXCEPT ![s] = users'[Len(users')].id]
                        /\ Return(s, inv,
                                  Msg("Account created successfully", Len(users')),
                                  <<"tool_call", "store_write", "tool_result">>)
                /\ UNCHANGED <<appointments, session_memory>>

check_time_slot_availability(s, date, time) ==
    /\ Invoke(s)
    /\ LET inv == Invocation(s, "check_time_slot_availability", date, time)
       IN  IF ~env.delivers
           THEN EmitRaises(s, inv)
           ELSE /\ Return(s, inv,
                          IF check_availability(appointments, date, time)
                          THEN Msg("slot is available", DatetimeStr(date, time))
                          ELSE Msg("slot is already booked", DatetimeStr(date, time)),
                          <<"tool_call", "store_read">>)
                /\ UNCHANGED <<users, appointments, session_memory, self_user,
                               chat_user_id>>

fetch_slots(s) ==
    /\ Invoke(s)
    /\ LET inv == Invocation(s, "fetch_slots", 0, 0)
       IN  IF ~env.delivers
           THEN EmitRaises(s, inv)
           ELSE /\ Return(s, inv, Msg("Available slots", 0), <<"tool_call">>)
                /\ UNCHANGED <<users, appointments, session_memory, self_user,
                               chat_user_id>>

book_appointment(s, start_time, duration) ==
    /\ Invoke(s)
    /\ LET inv == Invocation(s, "book_appointment", start_time, 0)
       IN  IF Refuses(s, "book_appointment")
           THEN Refuse(s, inv)
           ELSE IF ~env.delivers
           THEN EmitRaises(s, inv)
           ELSE /\ Len(appointments) < MaxAppts
                /\ appointments' = create_appointment(users, appointments,
                                       self_user[s].id, start_time, duration)
                /\ IF create_appointment_row(users, appointments, self_user[s].id,
                                             start_time, duration) # NoRow
                   THEN Return(s, inv, Msg("Appointment booked successfully", start_time),
                               <<"tool_call", "store_read", "store_write", "tool_result">>)
                   ELSE Return(s, inv, Msg("Failed to book appointment", 0),
                               <<"tool_call", "store_read">>)
                /\ UNCHANGED <<users, session_memory, self_user, chat_user_id>>

\* Mutant: the id is looked for in the whole table, not in get_appointments.
appointment_exists_any_row(s, appointment_id) ==
    \E i \in 1..Len(appointments) : appointments[i].id = appointment_id

\* any(appt['id'] == appointment_id for appt in user_appointments)
appointment_exists(s, appointment_id) ==
    LET user_appointments == get_appointments(users, appointments, self_user[s].id)
    IN  \E k \in 1..Len(user_appointments) :
            user_appointments[k].id = appointment_id

reschedule_user_appointment(s, appointment_id, new_time) ==
    /\ Invoke(s)
    /\ LET inv == Invocation(s, "reschedule_user_appointment", appointment_id, new_time)
       IN  IF Refuses(s, "reschedule_user_appointment")
           THEN Refuse(s, inv)
           ELSE IF ~env.delivers
           THEN EmitRaises(s, inv)
           ELSE /\ IF appointment_exists(s, appointment_id)
                   THEN Suspend(s, inv, "reschedule_update", <<"tool_call", "store_read">>)
                   ELSE Return(s, inv, Msg("I couldn't find that appointment", 0),
                               <<"tool_call", "store_read">>)
                /\ UNCHANGED <<users, appointments, session_memory, self_user,
                               chat_user_id>>

reschedule_user_appointment_update(s) ==
    /\ Resume(s, "reschedule_update")
    /\ appointments' = reschedule_appointment(appointments, call[s].a1, call[s].a2)
    /\ IF reschedule_matches(appointments, call[s].a1) # {}
       THEN Return(s, call[s], Msg("Your appointment has been rescheduled", call[s].a2),
                   trace[s] \o <<"store_write", "tool_result">>)
       ELSE Return(s, call[s], Msg("there was an error rescheduling", 0),
                   trace[s] \o <<"store_write">>)
    /\ UNCHANGED <<users, session_memory, self_user, chat_user_id>>

retrieve_appointments(s) ==
    /\ Invoke(s)
    /\ LET inv == Invocation(s, "retrieve_appointments", 0, 0)
       IN  IF Refuses(s, "retrieve_appointments")
           THEN Refuse(s, inv)
           ELSE IF ~env.delivers
           THEN EmitRaises(s, inv)
           ELSE /\ LET appts == get_appointments(users, appointments, self_user[s].id)
                   IN  IF appts = <<>>
                       THEN Return(s, inv, Msg("No active appointments found", 0),
                                   <<"tool_call", "store_read">>)
                       ELSE Return(s, inv, [msg |-> "Found active appointment(s)",
                                            arg |-> Len(appts), appts |-> appts],
                                   <<"tool_call", "store_read", "tool_result">>)
                /\ UNCHANGED <<users, appointments, session_memory, self_user,
                               chat_user_id>>

cancel_user_appointment(s, appointment_id) ==
    /\ Invoke(s)
    /\ LET inv == Invocation(s, "cancel_user_appointment", appointment_id, 0)
       IN  IF Refuses(s, "cancel_user_appointment")
           THEN Refuse(s, inv)
           ELSE IF ~env.delivers
           THEN EmitRaises(s, inv)
           ELSE /\ IF appointment_exists(s, appointment_id)
                   THEN Suspend(s, inv, "cancel_update", <<"tool_call", "store_read">>)
                   ELSE Return(s, inv,
                               Msg("I couldn't find an active appointment with that ID", 0),
                               <<"tool_call", "store_read">>)
                /\ UNCHANGED <<users, appointments, session_memory, self_user,
                               chat_user_id>>

cancel_user_appointment_update(s) ==
    /\ Resume(s, "cancel_update")
    /\ appointments' = cancel_appointment(appointments, call[s].a1)
    /\ IF cancel_matches(appointments, call[s].a1) # {}
       THEN Return(s, call[s],
                   Msg("Your appointment has been cancelled successfully", 0),
                   trace[s] \o <<"store_write", "tool_result">>)
       ELSE Return(s, call[s], Msg("there was an error cancelling", 0),
                   trace[s] \o <<"store_write">>)
    /\ UNCHANGED <<users, session_memory, self_user, chat_user_id>>


-----------------------------------------------------------------------------
(* agent.py: PersistentChatContext, and db.save_message *)

\* A message of a chat context: its role, what it says (the messages of a
\* context are told apart by their place in it), and what user_id the
\* context had when the message was added.
ChatMessage(role, content, user_id) ==
    [role |-> role, content |-> content, added_as |-> user_id]

\* Mutant: every message added is saved.
add_message_always_saves(s, role) ==
    LET content == <<s, Len(chat_ctx[s]) + 1>>
    IN  /\ chat_ctx' = [chat_ctx EXCEPT
               ![s] = Append(@, ChatMessage(role, content, chat_user_id[s]))]
        /\ save_tasks' = save_tasks \cup
               {[user_id |-> chat_user_id[s], role |-> role, content |-> content]}
        /\ UNCHANGED messages

\* PersistentChatContext.add_message (agent.py:173-177): the message joins the
\* context, and with user_id set a task is created that will save it.
add_message(s, role) ==
    LET content == <<s, Len(chat_ctx[s]) + 1>>
    IN  /\ chat_ctx' = [chat_ctx EXCEPT
               ![s] = Append(@, ChatMessage(role, content, chat_user_id[s]))]
        /\ save_tasks' =
              IF chat_user_id[s] # Null
              THEN save_tasks \cup
                     {[user_id |-> chat_user_id[s], role |-> role,
                       content |-> content]}
              ELSE save_tasks
        /\ UNCHANGED messages

\* The context of a call after entrypoint has made it and added the system
\* prompt (agent.py:198-199): user_id is None then.
InitialContext(s) == <<ChatMessage("system", <<s, 1>>, Null)>>

\* A turn of the conversation of call s is added to its context.
chat_turn(s, role) ==
    /\ epc = "listening"
    /\ Len(chat_ctx[s]) < MaxMsgs
    /\ add_message(s, role)
    /\ UNCHANGED <<users, appointments, session_memory, toolvars, seqvars>>

\* A task made by add_message runs db.save_message (db.py:143-149): the row
\* is inserted, or execute() raises inside the task and nothing is.
run_save_message(task) ==
    /\ task \in save_tasks
    /\ save_tasks' = save_tasks \ {task}
    /\ \/ messages' = Append(messages, task)
       \/ /\ env.faults
          /\ UNCHANGED messages
    /\ UNCHANGED <<users, appointments, session_memory, toolvars, seqvars,
                   chat_ctx>>

-----------------------------------------------------------------------------
(* agent.py: entrypoint, the pipeline sequencer of one call *)

\* ctx.room.name of the call whose entrypoint is followed.
ThisCall == "room1"

AvatarModes == {"completes", "raises", "hangs"}

\* broadcast_status(component, status) (agent.py:256-265): what publish_data
\* raises is caught, so the call has the same effect on entrypoint whether or
\* not the room delivers.
broadcast_status(component, status) ==
    broadcasts' = Append(broadcasts, <<component, status>>)

\* The coroutine moves on to its next await.
Goto(at) == epc' = at

\* An exception, or the CancelledError of an external cancellation, leaves
\* entrypoint from a place that no try block encloses.
Leave == epc' = "exited"

SeqFrame == UNCHANGED <<users, appointments, toolvars, env, chatvars>>

\* await create_session(session_id), then the chat context is made and the
\* system prompt added to it (agent.py:190-199)
entry_create_session ==
    /\ epc = "create_session"
    /\ \/ /\ session_memory' = create_session(session_memory, ThisCall)
          /\ created' = TRUE
          /\ add_message(ThisCall, "system")
          /\ Goto("connect")
       \/ /\ env.faults
          /\ Leave
          /\ UNCHANGED <<session_memory, created, chatvars>>
    /\ UNCHANGED <<clock, avatar_task, avatar_ready, session_started, greeting,
                   broadcasts, deletes>>
    /\ UNCHANGED <<users, appointments, toolvars, env>>

\* await ctx.connect(...), then the participant test (agent.py:202-212)
entry_connect ==
    /\ epc = "connect"
    /\ \/ \E present \in BOOLEAN :
             Goto(IF present THEN "bc_stt_init" ELSE "wait_for_participant")
       \/ /\ env.faults
          /\ Leave
    /\ UNCHANGED <<session_memory, clock, avatar_task, avatar_ready,
                   session_started, greeting, broadcasts, created, deletes>>
    /\ SeqFrame

\* await ctx.wait_for_participant() (agent.py:211)
entry_wait_for_participant ==
    /\ epc = "wait_for_participant"
    /\ Goto("bc_stt_init")
    /\ UNCHANGED <<session_memory, clock, avatar_task, avatar_ready,
                   session_started, greeting, broadcasts, created, deletes>>
    /\ SeqFrame

\* A broadcast of `status` for `component` completes; the synchronous work
\* that follows it either succeeds, and the coroutine suspends at `next`, or
\* (when it can fail) raises.
BroadcastStep(at, component, status, next, can_raise) ==
    /\ epc = at
    /\ broadcast_status(component, status)
    /\ \/ Goto(next)
       \/ /\ can_raise
          /\ env.faults
          /\ Leave
    /\ UNCHANGED <<session_memory, clock, avatar_task, avatar_ready,
                   session_started, greeting, created, deletes>>
    /\ SeqFrame

\* 1. STT (agent.py:267-271)
entry_stt_initializing ==
    BroadcastStep("bc_stt_init", "stt", "initializing", "bc_stt_ready", TRUE)

entry_stt_ready ==
    BroadcastStep("bc_stt_ready", "stt", "ready", "bc_llm_init", FALSE)

\* 2. LLM (agent.py:273-277)
entry_llm_initializing ==
    BroadcastStep("bc_llm_init", "llm", "initializing", "bc_llm_ready", TRUE)

entry_llm_ready ==
    BroadcastStep("bc_llm_ready", "llm", "ready", "bc_tts_init", FALSE)

\* 3. TTS (agent.py:279-285)
entry_tts_initializing ==
    BroadcastStep("bc_tts_init", "tts", "initializing", "bc_tts_ready", TRUE)

entry_tts_ready ==
    BroadcastStep("bc_tts_ready", "tts", "ready", "bc_database_init", FALSE)

\* Mutant: the exception of the probe is not caught.
entry_database_probe_fatal ==
    /\ epc = "bc_database_init"
    /\ broadcast_status("database", "initializing")
    /\ \/ Goto("bc_database_ready")
       \/ /\ env.faults
          /\ Leave
    /\ UNCHANGED <<session_memory, clock, avatar_task, avatar_ready,
                   session_started, greeting, created, deletes>>
    /\ SeqFrame

\* 4. the store probe: get_session inside try/except (agent.py:287-296)
entry_database_initializing ==
    /\ epc = "bc_database_init"
    /\ broadcast_status("database", "initializing")
    /\ \/ Goto("bc_database_ready")
       \/ /\ env.faults
          /\ Goto("bc_database_error")
    /\ UNCHANGED <<session_memory, clock, avatar_task, avatar_ready,
                   session_started, greeting, created, deletes>>
    /\ SeqFrame

\* 5. after the probe's broadcast: silero.VAD.load() and Agent(...), then
\* await session.start (agent.py:298-315)
entry_database_ready ==
    BroadcastStep("bc_database_ready", "database", "ready", "session_start", TRUE)

entry_database_error ==
    BroadcastStep("bc_database_error", "database", "error", "session_start", TRUE)

\* await session.start(...) returns (agent.py:315), then asyncio.sleep(1)
entry_session_start ==
    /\ epc = "session_start"
    /\ \/ /\ session_started' = TRUE
          /\ Goto("sleep_after_start")
       \/ /\ env.faults
          /\ Leave
          /\ UNCHANGED session_started
    /\ UNCHANGED <<session_memory, clock, avatar_task, avatar_ready, greeting,
                   broadcasts, created, deletes>>
    /\ SeqFrame

\* await asyncio.sleep(1) (agent.py:319)
entry_sleep_after_start ==
    /\ epc = "sleep_after_start"
    /\ Goto("bc_avatar_init")
    /\ UNCHANGED <<session_memory, clock, avatar_task, avatar_ready,
                   session_started, greeting, broadcasts, created, deletes>>
    /\ SeqFrame

\* broadcast "avatar initializing", bey.AvatarSession(...), avatar_ready =
\* False, then asyncio.wait_for(avatar.start(...), timeout=20.0) begins
\* (agent.py:322-329)
entry_avatar_initializing ==
    /\ epc = "bc_avatar_init"
    /\ broadcast_status("avatar", "initializing")
    /\ \/ /\ avatar_task' = "running"
          /\ clock' = 0
          /\ avatar_ready' = FALSE
          /\ Goto("avatar_wait")
       \/ /\ env.faults
          /\ Leave
          /\ UNCHANGED <<avatar_task, clock, avatar_ready>>
    /\ UNCHANGED <<session_memory, session_started, greeting, created, deletes>>
    /\ SeqFrame

\* A time unit passes while wait_for is pending.
Tick ==
    /\ epc = "avatar_wait"
    /\ clock < AvatarTimeout
    /\ clock' = clock + 1
    /\ UNCHANGED <<session_memory, epc, avatar_task, avatar_ready,
                   session_started, greeting, broadcasts, created, deletes>>
    /\ SeqFrame

\* avatar.start returns in time: avatar_ready = True (agent.py:330-332)
avatar_start_returns ==
    /\ epc = "avatar_wait"
    /\ env.avatar = "completes"
    /\ avatar_task' = "done"
    /\ avatar_ready' = TRUE
    /\ Goto("bc_avatar_ready")
    /\ UNCHANGED <<session_memory, clock, session_started, greeting,
                   broadcasts, created, deletes>>
    /\ SeqFrame

\* Mutant: a wait with no timeout.
avatar_start_never_times_out ==
    /\ FALSE
    /\ UNCHANGED vars

\* Mutant: the timer ends the wait and leaves avatar.start running.
avatar_start_times_out_unresolved ==
    /\ epc = "avatar_wait"
    /\ clock = AvatarTimeout
    /\ avatar_ready' = FALSE
    /\ Goto("bc_avatar_unavailable")
    /\ UNCHANGED <<session_memory, clock, avatar_task, session_started, greeting,
                   broadcasts, created, deletes>>
    /\ SeqFrame

\* wait_for's timer fires first: it cancels avatar.start and raises
\* TimeoutError (agent.py:335-337)
avatar_start_times_out ==
    /\ epc = "avatar_wait"
    /\ clock = AvatarTimeout
    /\ avatar_task' = "timed_out"
    /\ avatar_ready' = FALSE
    /\ Goto("bc_avatar_unavailable")
    /\ UNCHANGED <<session_memory, clock, session_started, greeting,
                   broadcasts, created, deletes>>
    /\ SeqFrame

\* Mutant: the exception of avatar.start is not caught.
avatar_start_raises_fatal ==
    /\ epc = "avatar_wait"
    /\ env.avatar = "raises"
    /\ avatar_task' = "failed"
    /\ avatar_ready' = FALSE
    /\ Leave
    /\ UNCHANGED <<session_memory, clock, session_started, greeting,
                   broadcasts, created, deletes>>
    /\ SeqFrame

\* avatar.start raises (agent.py:339-341)
avatar_start_raises ==
    /\ epc = "avatar_wait"
    /\ env.avatar = "raises"
    /\ avatar_task' = "failed"
    /\ avatar_ready' = FALSE
    /\ Goto("bc_avatar_error")
    /\ UNCHANGED <<session_memory, clock, session_started, greeting,
                   broadcasts, created, deletes>>
    /\ SeqFrame

\* broadcast "avatar ready", then asyncio.sleep(2) (agent.py:332-334)
entry_avatar_ready ==
    BroadcastStep("bc_avatar_ready", "avatar", "ready", "sleep_avatar", FALSE)

\* Mutant: a failed avatar stage is attempted again.
AfterAvatarRetries ==
    IF avatar_ready THEN "sleep_before_greeting" ELSE "bc_avatar_init"

\* The place after the try statement (agent.py:344-350): with the avatar
\* ready one more sleep, else session.say at once.
AfterAvatar == IF avatar_ready THEN "sleep_before_greeting" ELSE "say"

\* The greeting starts when the coroutine reaches session.say.
EnterAfterAvatar ==
    /\ Goto(AfterAvatar)
    /\ greeting' = IF AfterAvatar = "say" THEN "saying" ELSE greeting

\* await asyncio.sleep(2) (agent.py:334)
entry_sleep_avatar ==
    /\ epc = "sleep_avatar"
    /\ EnterAfterAvatar
    /\ UNCHANGED <<session_memory, clock, avatar_task, avatar_ready,
                   session_started, broadcasts, created, deletes>>
    /\ SeqFrame

\* broadcast "avatar unavailable" (agent.py:338)
entry_avatar_unavailable ==
    /\ epc = "bc_avatar_unavailable"
    /\ broadcast_status("avatar", "unavailable")
    /\ EnterAfterAvatar
    /\ UNCHANGED <<session_memory, clock, avatar_task, avatar_ready,
                   session_started, created, deletes>>
    /\ SeqFrame

\* broadcast "avatar error" (agent.py:342)
entry_avatar_error ==
    /\ epc = "bc_avatar_error"
    /\ broadcast_status("avatar", "error")
    /\ EnterAfterAvatar
    /\ UNCHANGED <<session_memory, clock, avatar_task, avatar_ready,
                   session_started, created, deletes>>
    /\ SeqFrame

\* await asyncio.sleep(1) (agent.py:345-347)
entry_sleep_before_greeting ==
    /\ epc = "sleep_before_greeting"
    /\ Goto("say")
    /\ greeting' = "saying"
    /\ UNCHANGED <<session_memory, clock, avatar_task, avatar_ready,
                   session_started, broadcasts, created, deletes>>
    /\ SeqFrame

\* await session.say(...) returns; entrypoint waits on asyncio.Event()
\* (agent.py:350-357)
entry_say ==
    /\ epc = "say"
    /\ \/ /\ greeting' = "said"
          /\ Goto("listening")
       \/ /\ env.faults
          /\ Leave
          /\ UNCHANGED greeting
    /\ UNCHANGED <<session_memory, clock, avatar_task, avatar_ready,
                   session_started, broadcasts, created, deletes>>
    /\ SeqFrame

\* The awaits of entrypoint outside the try statement of agent.py:355.
StartupAwaits ==
    {"connect", "wait_for_participant", "bc_stt_init", "bc_stt_ready",
     "bc_llm_init", "bc_llm_ready", "bc_tts_init", "bc_tts_ready",
     "bc_database_init", "bc_database_ready", "bc_database_error",
     "session_start", "sleep_after_start", "bc_avatar_init", "avatar_wait",
     "bc_avatar_ready", "sleep_avatar", "bc_avatar_unavailable",
     "bc_avatar_error", "sleep_before_greeting", "say"}

\* The job is cancelled while entrypoint is suspended during startup:
\* CancelledError is raised at the await and nothing catches it (it is no
\* Exception, so neither broadcast_status nor the avatar's handlers do).
cancel_during_startup ==
    /\ env.cancels
    /\ epc \in StartupAwaits
    /\ Leave
    /\ avatar_task' = IF avatar_task = "running" THEN "cancelled" ELSE avatar_task
    /\ UNCHANGED <<session_memory, clock, avatar_ready, session_started,
                   greeting, broadcasts, created, deletes>>
    /\ SeqFrame

\* Mutant: the wait on the event has no finally clause.
cancel_while_listening_no_teardown ==
    /\ env.cancels
    /\ epc = "listening"
    /\ Leave
    /\ UNCHANGED <<session_memory, clock, avatar_task, avatar_ready,
                   session_started, greeting, broadcasts, created, deletes>>
    /\ SeqFrame

\* The job is cancelled while entrypoint waits on the event: the
\* CancelledError is caught and the finally clause runs delete_session
\* (agent.py:355-363).
cancel_while_listening ==
    /\ env.cancels
    /\ epc = "listening"
    /\ deletes' = deletes + 1
    /\ \/ session_memory' = delete_session(session_memory, ThisCall)
       \/ /\ env.faults
          /\ UNCHANGED session_memory
    /\ Leave
    /\ UNCHANGED <<clock, avatar_task, avatar_ready, session_started,
                   greeting, broadcasts, created>>
    /\ SeqFrame

\* The worker runs entrypoint once for every job it is given, and a room can
\* be given a job again while an earlier job of it is still alive (a retried
\* startup): session_id is the room name in each of them.

\* Another job of room s does one of its operations on the session record.
OtherJob(s) ==
    /\ ncalls + njobs < MaxCalls
    /\ njobs' = njobs + 1
    /\ UNCHANGED <<users, appointments, self_user, chat_user_id, pc, call, trace,
                   last, ncalls, seqvars, chatvars>>

\* entrypoint of another job of room s runs create_session (agent.py:190-191).
retried_create_session(s) ==
    /\ OtherJob(s)
    /\ session_memory' = create_session(session_memory, s)

\* entrypoint of another job of room s ends: its finally clause runs
\* delete_session (agent.py:360-362).
ended_job_delete_session(s) ==
    /\ OtherJob(s)
    /\ session_memory' = delete_session(session_memory, s)

-----------------------------------------------------------------------------
(* The tool layer over the shared store *)

\* One enrolled user, whose e-mail string is the phone string a second user
\* can enroll with, so that the order of the two lookups of identify_user shows.
InitUsers == <<[id |-> 1, contact_number |-> 1, email |-> 2]>>

\* Phone numbers and e-mail addresses given at enrollment.
NewContacts == {1, 2}
NewEmails == {1}

NoLast == [session |-> "(none)", op |-> "(none)", a1 |-> 0, a2 |-> 0,
           user |-> Null, result |-> Msg("(none)", 0), trace |-> <<>>]

ToolsInit ==
    /\ self_user = [s \in Sessions |-> NoUser]
    /\ chat_user_id = [s \in Sessions |-> Null]
    /\ pc = [s \in Sessions |-> "idle"]
    /\ call = [s \in Sessions |-> NoCall]
    /\ trace = [s \in Sessions |-> <<>>]
    /\ last = NoLast
    /\ ncalls = 0
    /\ njobs = 0
    /\ save_tasks = {}
    /\ messages = <<>>

\* entrypoint is listening after a startup in which every stage, the avatar
\* included, came up.
AfterStartup ==
    /\ users = InitUsers
    /\ appointments = <<>>
    /\ session_memory = [s \in Sessions |-> Null]
    /\ ToolsInit
    /\ epc = "listening"
    /\ clock = 0
    /\ avatar_task = "done"
    /\ avatar_ready = TRUE
    /\ session_started = TRUE
    /\ greeting = "said"
    /\ broadcasts = << <<"stt", "initializing">>, <<"stt", "ready">>,
                       <<"llm", "initializing">>, <<"llm", "ready">>,
                       <<"tts", "initializing">>, <<"tts", "ready">>,
                       <<"database", "initializing">>, <<"database", "ready">>,
                       <<"avatar", "initializing">>, <<"avatar", "ready">> >>
    /\ created = TRUE
    /\ deletes = 0
    /\ chat_ctx = [s \in Sessions |-> InitialContext(s)]

\* The tools run while entrypoint is listening.
Init ==
    /\ AfterStartup
    /\ env \in [avatar : {"completes"}, cancels : {FALSE}, faults : {FALSE},
                 delivers : BOOLEAN]

\* The tools of every call; and, of the room whose entrypoint is followed,
\* the other jobs.
Next ==
    \/ \E s \in Sessions :
          \/ \E identifier \in Identifiers : identify_user(s, identifier)
          \/ identify_user_email(s)
          \/ identify_user_bind(s)
          \/ \E c \in NewContacts, e \in NewEmails : create_user_account(s, c, e)
          \/ \E d \in Dates, t \in Slots : check_time_slot_availability(s, d, t)
          \/ fetch_slots(s)
          \/ \E t \in Timestamps : book_appointment(s, t, DefaultDuration)
          \/ \E id \in ApptIds, t \in Timestamps : reschedule_user_appointment(s, id, t)
          \/ reschedule_user_appointment_update(s)
          \/ retrieve_appointments(s)
          \/ \E id \in ApptIds : cancel_user_appointment(s, id)
          \/ cancel_user_appointment_update(s)
    \/ retried_create_session(ThisCall)
    \/ ended_job_delete_session(ThisCall)

Spec == Init /\ [][Next]_vars

-----------------------------------------------------------------------------
(* The conversation of each call: its turns, and the tools that bind it *)

Roles == {"system", "user", "assistant"}

\* The values of PersistentChatContext.user_id: None, or the id of a user.
ChatUserIds == {Null} \cup 1..(Len(InitUsers) + Cardinality(NewContacts))

\* The arguments of db.save_message.
SaveTasks ==
    [user_id : ChatUserIds, role : Roles, content : Sessions \X (1..MaxMsgs)]

\* The store may fail a save.
ChatInit ==
    /\ AfterStartup
    /\ env \in [avatar : {"completes"}, cancels : {FALSE}, faults : BOOLEAN,
                 delivers : BOOLEAN]

\* The conversation of the call that is followed, and the tools that set the
\* user_id of its context.
ChatNext ==
    \/ \E role \in Roles \ {"system"} : chat_turn(ThisCall, role)
    \/ \E identifier \in Identifiers : identify_user(ThisCall, identifier)
    \/ identify_user_email(ThisCall)
    \/ identify_user_bind(ThisCall)
    \/ \E c \in NewContacts, e \in NewEmails :
          create_user_account(ThisCall, c, e)
    \/ \E task \in SaveTasks : run_save_message(task)

ChatSpec == ChatInit /\ [][ChatNext]_vars

-----------------------------------------------------------------------------
(* The pipeline sequencer of one call, from the start of the job *)

SeqInit ==
    /\ users = InitUsers
    /\ appointments = <<>>
    /\ session_memory = [s \in Sessions |-> Absent]
    /\ ToolsInit
    /\ epc = "create_session"
    /\ env \in [avatar : AvatarModes, cancels : BOOLEAN, faults : BOOLEAN,
                 delivers : BOOLEAN]
    /\ clock = 0
    /\ avatar_task = "not started"
    /\ avatar_ready = FALSE
    /\ session_started = FALSE
    /\ greeting = "none"
    /\ broadcasts = <<>>
    /\ created = FALSE
    /\ deletes = 0
    /\ chat_ctx = [s \in Sessions |-> <<>>]

SeqStep ==
    \/ entry_create_session
    \/ entry_connect
    \/ entry_wait_for_participant
    \/ entry_stt_initializing
    \/ entry_stt_ready
    \/ entry_llm_initializing
    \/ entry_llm_ready
    \/ entry_tts_initializing
    \/ entry_tts_ready
    \/ entry_database_initializing
    \/ entry_database_ready
    \/ entry_database_error
    \/ entry_session_start
    \/ entry_sleep_after_start
    \/ entry_avatar_initializing
    \/ avatar_start_times_out
    \/ entry_avatar_ready
    \/ entry_sleep_avatar
    \/ entry_avatar_unavailable
    \/ entry_avatar_error
    \/ entry_sleep_before_greeting
    \/ entry_say

SeqNext ==
    \/ SeqStep
    \/ Tick
    \/ avatar_start_returns
    \/ avatar_start_raises
    \/ cancel_during_startup
    \/ cancel_while_listening

SeqSpec == SeqInit /\ [][SeqNext]_vars

\* The event loop runs a coroutine that can run, and time passes; whether and
\* when avatar.start returns, and whether the job is cancelled, is up to the
\* collaborators.
FairSeqSpec == SeqSpec /\ WF_vars(SeqStep) /\ WF_vars(Tick)

-----------------------------------------------------------------------------
(* Properties of the appointment engine and the tool layer (under Spec) *)

Booked(i) == appointments[i].status = "booked"

\* C1: in every reachable state no two appointments with status=booked have
\* the same appointment_time.
NoDoubleBooking ==
    \A i, j \in 1..Len(appointments) :
        (i # j /\ Booked(i) /\ Booked(j))
            => appointments[i].appointment_time # appointments[j].appointment_time

\* C2: an invocation of book_appointment, reschedule_user_appointment,
\* retrieve_appointments or cancel_user_appointment made while the call has no
\* identified user returns the "identify first" message, having emitted no
\* event and made no store operation; and the step that makes it leaves the
\* three tables as they were.
RefusedStep ==
    /\ ncalls' # ncalls
    /\ last'.op \in GatedOps
    /\ pc[last'.session] = "idle"
    /\ pc'[last'.session] = "idle"
    /\ self_user[last'.session] = NoUser

RefusedWhileUnidentified ==
    /\ [](last.op \in GatedOps /\ last.user = Null
            => last.result = IdentifyFirst /\ last.trace = <<>>)
    /\ [][RefusedStep => UNCHANGED <<users, appointments, session_memory>>]_vars

RefusedWhileUnidentifiedWitness ==
    /\ last.op = "cancel_user_appointment"
    /\ last.user = Null
    /\ last.result = IdentifyFirst
    /\ Len(appointments) > 0

\* C3: every tool other than identify_user and create_user_account (and the
\* formatting helpers) refuses, before anything else, an invocation made
\* while the call has no identified user: it emits nothing, makes no store
\* operation and returns the "identify first" message.
EveryToolChecksIdentityFirst ==
    (last.op \notin {"(none)", "identify_user", "create_user_account"}
     /\ last.user = Null)
        => last.result = IdentifyFirst /\ last.trace = <<>>

\* C4: once a call has a bound user, no step changes it: not the tool
\* layer's identity, not the chat context's user_id, not the session
\* record's user_id.
BindingIsMonotonic ==
    [][\A s \in Sessions :
          /\ self_user[s] # NoUser => self_user'[s] = self_user[s]
          /\ chat_user_id[s] # Null => chat_user_id'[s] = chat_user_id[s]
          /\ session_memory[s] \notin {Null, Absent}
                => session_memory'[s] = session_memory[s]]_vars

\* C5: a reschedule or cancel by an identified caller, of an id that names
\* no appointment or one owned by another contact_number, gives one and the
\* same outcome: the not-found text, the tool_call event alone, one store
\* read and no write.  And what get_appointments returns for a user is what
\* it returns with every appointment of another contact_number taken out of
\* the table; every appointment retrieve_appointments lists is the caller's.
NotFoundText(op) ==
    IF op = "cancel_user_appointment"
    THEN Msg("I couldn't find an active appointment with that ID", 0)
    ELSE Msg("I couldn't find that appointment", 0)

ContactOf(user_id) == get_user_by_id(users, user_id).contact_number

OwnedBy(contact_number) ==
    {i \in 1..Len(appointments) : appointments[i].contact_number = contact_number}

EraseForeign(contact_number) ==
    RowsFrom(appointments, OwnedBy(contact_number), 1)

CrossUserIdsInert ==
    /\ (last.op \in {"reschedule_user_appointment", "cancel_user_appointment"}
        /\ last.user # Null
        /\ last.a1 \notin OwnedBy(ContactOf(last.user)))
            => /\ last.result = NotFoundText(last.op)
               /\ last.trace = <<"tool_call", "store_read">>
    /\ \A s \in Sessions :
          self_user[s] # NoUser
            => get_appointments(users, appointments, self_user[s].id)
               = get_appointments(users,
                                  EraseForeign(self_user[s].contact_number),
                                  self_user[s].id)
    /\ (last.op = "retrieve_appointments" /\ last.user # Null)
            => \A k \in 1..Len(last.result.appts) :
                   last.result.appts[k].id \in OwnedBy(ContactOf(last.user))

CrossUserIdsInertWitness ==
    /\ last.op = "cancel_user_appointment"
    /\ last.user # Null
    /\ last.a1 \in 1..Len(appointments)
    /\ Booked(last.a1)
    /\ last.a1 \notin OwnedBy(ContactOf(last.user))
    /\ last.result = NotFoundText(last.op)

\* C6: a cancelled appointment stays cancelled: no step of any call makes
\* the status of a cancelled row anything else, or removes the row.
CancelledIsTerminal ==
    [][\A i \in 1..Len(appointments) :
          appointments[i].status = "cancelled"
            => /\ i <= Len(appointments')
               /\ appointments'[i].id = appointments[i].id
               /\ appointments'[i].status = "cancelled"]_vars

\* A reschedule of a cancelled appointment has been tried and has not
\* succeeded.
CancelledIsTerminalWitness ==
    /\ last.op = "reschedule_user_appointment"
    /\ last.user # Null
    /\ last.a1 \in 1..Len(appointments)
    /\ appointments[last.a1].status = "cancelled"
    /\ last.result.msg # "Your appointment has been rescheduled"

\* The handler of call s, suspended at `at`, returns in this step.
ReturnsFrom(s, at) == pc[s] = at /\ pc'[s] = "idle"

\* C12: the step in which reschedule_user_appointment succeeds changes the
\* appointment_time of the row with the given id to the new time and nothing
\* else: the table keeps its length (and so does every owner's part of it),
\* the row keeps its id, status and contact_number, and every other row is
\* as it was.
RescheduleSucceeds(s) ==
    /\ ReturnsFrom(s, "reschedule_update")
    /\ last'.result.msg = "Your appointment has been rescheduled"

RescheduleChangesOnlyTime ==
    [][\A s \in Sessions :
          RescheduleSucceeds(s) =>
            /\ Len(appointments') = Len(appointments)
            /\ call[s].a1 \in 1..Len(appointments)
            /\ \A c \in Identifiers :
                  Cardinality({i \in 1..Len(appointments') :
                                  appointments'[i].contact_number = c})
                  = Cardinality(OwnedBy(c))
            /\ \A i \in 1..Len(appointments) :
                  IF appointments[i].id = call[s].a1
                  THEN /\ appointments'[i].id = appointments[i].id
                       /\ appointments'[i].status = appointments[i].status
                       /\ appointments'[i].contact_number
                             = appointments[i].contact_number
                       /\ appointments'[i].details = appointments[i].details
                       /\ appointments'[i].appointment_time = call[s].a2
                  ELSE appointments'[i] = appointments[i]]_vars

\* A reschedule to another time has succeeded, with a second appointment in
\* the table.
RescheduleChangesOnlyTimeWitness ==
    /\ last.op = "reschedule_user_appointment"
    /\ last.result = Msg("Your appointment has been rescheduled", last.a2)
    /\ Len(appointments) = MaxAppts
    /\ appointments[last.a1].appointment_time = last.a2
    /\ \E i \in 1..Len(appointments) :
          i # last.a1 /\ appointments[i].appointment_time # last.a2

\* The step is an invocation of a tool of call s that returns at once.
InvokedAndReturned(s, op) ==
    /\ ncalls' # ncalls
    /\ pc' = pc
    /\ last'.session = s
    /\ last'.op = op

\* The step is an invocation of a tool of call s that suspends at `at`.
InvokedAndSuspended(s, at) == pc[s] = "idle" /\ pc'[s] = at

AlreadyCancelled(appointment_id) ==
    /\ appointment_id \in 1..Len(appointments)
    /\ appointments[appointment_id].status = "cancelled"

\* C13: cancel_user_appointment of an appointment that is already cancelled,
\* by an identified caller, returns the not-found text without going on to
\* the update, and leaves the table as it was: the row is still there and
\* its status is still cancelled.  This holds of every such invocation, so
\* of every number of repeated ones.
CancelOfCancelledIsNotFound ==
    [][\A s \in Sessions :
          /\ (InvokedAndReturned(s, "cancel_user_appointment")
              /\ self_user[s] # NoUser
              /\ AlreadyCancelled(last'.a1))
                => /\ last'.result = NotFoundText("cancel_user_appointment")
                   /\ appointments' = appointments
          /\ InvokedAndSuspended(s, "cancel_update")
                => ~AlreadyCancelled(call'[s].a1)]_vars

\* The owner of a cancelled appointment has cancelled it again and has been
\* told it was not found; the row is still in the table.
CancelOfCancelledIsNotFoundWitness ==
    /\ last.op = "cancel_user_appointment"
    /\ last.user # Null
    /\ AlreadyCancelled(last.a1)
    /\ last.a1 \in OwnedBy(ContactOf(last.user))
    /\ last.result = NotFoundText("cancel_user_appointment")

\* C14: the step in which create_user_account succeeds leaves the created
\* user bound to the call: the session record's user_id, the tool layer's
\* identity and the chat context's user_id are all the created user's.
CreatedUserIsBound ==
    [][\A s \in Sessions :
          (InvokedAndReturned(s, "create_user_account")
           /\ last'.result.msg = "Account created successfully")
            => /\ self_user'[s] = users'[Len(users')]
               /\ chat_user_id'[s] = users'[Len(users')].id
               /\ session_memory'[s] = users'[Len(users')].id]_vars

\* C15: when identify_user comes to bind the user it found and the session
\* has no record, it does not report the user as identified, and a call
\* that was unidentified when the tool was invoked stays unidentified.
BindFailsWithoutSessionRecord ==
    [][\A s \in Sessions :
          (ReturnsFrom(s, "identify_bind") /\ session_memory[s] = Absent)
            => /\ last'.result.msg # "User identified"
               /\ call[s].user = Null => self_user'[s] = NoUser]_vars

\* C16: no step sets a session record's user_id back to null once it has
\* been set, the record being still there (its removal by delete_session is
\* the destroy).
SessionUserNeverCleared ==
    [][\A s \in Sessions :
          session_memory[s] \notin {Null, Absent}
            => session_memory'[s] # Null]_vars

IdentifyAwaits == {"identify_email", "identify_bind"}

\* The step is one of the handler of identify_user of call s.
IdentifyStep(s) ==
    /\ pc'[s] # pc[s]
    /\ {pc[s], pc'[s]} \cap IdentifyAwaits # {}

HasContact(identifier) ==
    \E k \in 1..Len(users) : users[k].contact_number = identifier

HasEmail(identifier) ==
    \E k \in 1..Len(users) : users[k].email = identifier

\* C17: no step of identify_user changes the users table.  Its first lookup
\* is by contact_number: when a user has the identifier as contact_number
\* that user is taken, and only otherwise is the e-mail looked up; when no
\* user has it as e-mail either, the handler returns the not-found text and
\* leaves the call's identity, the chat context and the session record as
\* they were.
IdentifyNeverCreates ==
    [][\A s \in Sessions :
          /\ IdentifyStep(s) => users' = users
          /\ \A at \in IdentifyAwaits :
                InvokedAndSuspended(s, at) =>
                    IF HasContact(call'[s].a1)
                    THEN /\ at = "identify_bind"
                         /\ self_user'[s].contact_number = call'[s].a1
                    ELSE /\ at = "identify_email"
                         /\ self_user'[s] = self_user[s]
          /\ (pc[s] = "identify_email" /\ pc'[s] # pc[s]) =>
                IF HasEmail(call[s].a1)
                THEN /\ pc'[s] = "identify_bind"
                     /\ self_user'[s].email = call[s].a1
                ELSE /\ pc'[s] = "idle"
                     /\ last'.result = Msg("No user found", call[s].a1)
                     /\ self_user'[s] = self_user[s]
                     /\ chat_user_id' = chat_user_id
                     /\ session_memory' = session_memory]_vars

\* An identifier that is one user's contact_number and an earlier user's
\* e-mail has identified the former.
IdentifyNeverCreatesWitness ==
    /\ last.op = "identify_user"
    /\ last.result.msg = "User identified"
    /\ get_user_by_id(users, last.result.arg).contact_number = last.a1
    /\ \E k \in 1..Len(users) :
          users[k].email = last.a1 /\ users[k].id < last.result.arg

\* The booked appointments of a contact_number.
BookedOf(contact_number) == {i \in OwnedBy(contact_number) : Booked(i)}

\* C18: retrieve_appointments of an identified call returns the appointments
\* that have the caller's contact_number and status=booked, each once, with
\* its own time, and no other: never a cancelled one, never one of another
\* contact_number; with none to return it says so.
RetrieveReturnsOwnBooked ==
    [][\A s \in Sessions :
          (InvokedAndReturned(s, "retrieve_appointments") /\ self_user[s] # NoUser)
            => LET appts == last'.result.appts
                   own == BookedOf(self_user[s].contact_number)
               IN  /\ {appts[k].id : k \in 1..Len(appts)} = own
                   /\ Len(appts) = Cardinality(own)
                   /\ \A k \in 1..Len(appts) :
                         /\ appts[k].status = "booked"
                         /\ appts[k].start_time
                               = appointments[appts[k].id].appointment_time
                   /\ own = {} <=> last'.result.msg = "No active appointments found"
                   /\ own # {} <=> last'.result.msg = "Found active appointment(s)"]_vars

\* A caller with a booked and a cancelled appointment has been given the
\* booked one alone.
RetrieveReturnsOwnBookedWitness ==
    /\ last.op = "retrieve_appointments"
    /\ Len(last.result.appts) > 0
    /\ \E i \in OwnedBy(ContactOf(last.user)) : ~Booked(i)
    /\ \A k \in 1..Len(last.result.appts) : Booked(last.result.appts[k].id)

\* Some booked appointment, other than the one with id `except`, is at
\* start_time.
TakenBesides(start_time, except) ==
    \E i \in 1..Len(appointments) :
        /\ i # except
        /\ Booked(i)
        /\ appointments[i].appointment_time = start_time

Taken(start_time) == TakenBesides(start_time, Null)

Succeeded(op, text) == last.op = op /\ last.result.msg = text

\* C19: a check of (date, time) that gets to the store reports the slot
\* available exactly when no booked appointment is at the timestamp built
\* from them, and leaves the store as it was.  So the check that comes next after a successful booking
\* at that timestamp reports it booked; and the check that comes next after
\* the cancellation of an appointment at that timestamp, or after its
\* reschedule to another one, reports it available unless another booked
\* appointment is there.
AvailabilityMatchesBookings ==
    [][\A s \in Sessions :
          (InvokedAndReturned(s, "check_time_slot_availability")
           /\ last'.result # Raised) =>
            LET T == DatetimeStr(last'.a1, last'.a2)
                booked == Msg("slot is already booked", T)
                free == Msg("slot is available", T)
            IN  /\ last'.result = IF Taken(T) THEN booked ELSE free
                /\ UNCHANGED <<users, appointments, session_memory>>
                /\ (Succeeded("book_appointment", "Appointment booked successfully")
                    /\ last.a1 = T)
                      => last'.result = booked
                /\ (Succeeded("cancel_user_appointment",
                              "Your appointment has been cancelled successfully")
                    /\ appointments[last.a1].appointment_time = T
                    /\ ~TakenBesides(T, last.a1))
                      => last'.result = free
                /\ (Succeeded("reschedule_user_appointment",
                              "Your appointment has been rescheduled")
                    /\ last.a2 # T
                    /\ ~TakenBesides(T, last.a1))
                      => last'.result = free]_vars

\* A slot whose only appointment has been cancelled has been reported
\* available.
AvailabilityMatchesBookingsWitness ==
    /\ last.op = "check_time_slot_availability"
    /\ last.result = Msg("slot is available", DatetimeStr(last.a1, last.a2))
    /\ \E i \in 1..Len(appointments) :
          /\ ~Booked(i)
          /\ appointments[i].appointment_time = DatetimeStr(last.a1, last.a2)

StoreOps == {"store_read", "store_write"}

\* C20: an invocation that has passed its precondition (it has emitted an
\* event or gone to the store) has emitted tool_call before its first store
\* operation and tool_result after its last, whatever its outcome.
ToolCallThenToolResult ==
    last.trace # <<>> =>
        /\ last.trace[1] = "tool_call"
        /\ last.trace[Len(last.trace)] = "tool_result"
        /\ \A k \in 1..Len(last.trace) :
              last.trace[k] \in StoreOps =>
                  \E i, j \in 1..Len(last.trace) :
                      /\ i < k /\ last.trace[i] = "tool_call"
                      /\ k < j /\ last.trace[j] = "tool_result"

WentToStore(tr) == \E k \in 1..Len(tr) : tr[k] \in StoreOps

\* C21: an invocation that went to the store has returned a string to its
\* caller, whatever the store did: no exception has left the handler.
StoreFailureBecomesText ==
    WentToStore(last.trace) => last.result # Raised

\* C26: in a room that does not deliver, a tool still does its work and
\* returns a string: what publish_data raises does not leave the handler.
UndeliveredEventIsSwallowed ==
    (~env.delivers /\ last.op # NoLast.op) => last.result # Raised


\* C28: no step changes the appointment_time of a cancelled row, and the
\* update of a reschedule that runs when its row is already cancelled (the
\* cancel having come after the reschedule's ownership check or before it)
\* changes no row and does not report success.
CancelledTimeIsFrozen ==
    [][/\ \A i \in 1..Len(appointments) :
             appointments[i].status = "cancelled" =>
                 appointments'[i].appointment_time = appointments[i].appointment_time
       /\ \A s \in Sessions :
             (ReturnsFrom(s, "reschedule_update") /\ AlreadyCancelled(call[s].a1)) =>
                 /\ appointments' = appointments
                 /\ last'.result.msg # "Your appointment has been rescheduled"]_vars

\* A reschedule passed its ownership check while the row was booked, and its
\* update ran after the cancel of another call of the same owner.
CancelledTimeIsFrozenWitness ==
    /\ last.op = "reschedule_user_appointment"
    /\ last.result.msg = "there was an error rescheduling"
    /\ last.trace = <<"tool_call", "store_read", "store_write">>
    /\ AlreadyCancelled(last.a1)
    /\ appointments[last.a1].appointment_time # last.a2


\* C29: the update of a cancel that runs when its row is already cancelled
\* (another call's cancel having come after this one's ownership check) does
\* not report success, so at most one cancel of an appointment does.
SecondCancelDoesNotSucceed ==
    [][\A s \in Sessions :
          (ReturnsFrom(s, "cancel_update") /\ AlreadyCancelled(call[s].a1)) =>
              last'.result.msg # "Your appointment has been cancelled successfully"]_vars


-----------------------------------------------------------------------------
(* Properties of the pipeline sequencer (under SeqSpec and FairSeqSpec) *)

\* C7: when entrypoint has exited and create_session had made the session
\* record, delete_session has run exactly once.
DeleteSessionOnEveryExit ==
    (epc = "exited" /\ created) => deletes = 1

AvatarFailed == avatar_task \in {"failed", "timed_out"}

AvatarStatuses ==
    SelectSeq(broadcasts, LAMBDA b : b[1] = "avatar")

\* C8: when avatar.start raises or times out, the avatar is marked not ready
\* and entrypoint goes on to broadcast a non-ready avatar status; from then
\* on the last avatar status broadcast is "unavailable" or "error"; and,
\* unless the job is cancelled or the greeting itself fails, the greeting is
\* sent and entrypoint reaches Listening.
AvatarFailureStep ==
    (avatar_task = "running" /\ avatar_task' \in {"failed", "timed_out"})
        => /\ epc' \in {"bc_avatar_error", "bc_avatar_unavailable"}
           /\ ~avatar_ready'

AvatarFailureNotFatal ==
    /\ [][AvatarFailureStep]_vars
    /\ [](AvatarFailed =>
            /\ ~avatar_ready
            /\ epc \in {"say", "listening"} =>
                 AvatarStatuses[Len(AvatarStatuses)][2] \in {"unavailable", "error"})
    /\ (~env.cancels /\ ~env.faults) =>
            [](AvatarFailed => <>(epc = "listening" /\ greeting = "said"))

AvatarFailureNotFatalWitness ==
    /\ avatar_task = "failed"
    /\ epc = "listening"
    /\ greeting = "said"
    /\ ~avatar_ready

\* C9: with an avatar.start that never completes, "avatar ready" is never
\* broadcast, the wait never outlasts the timeout, and once entrypoint is
\* listening the avatar statuses broadcast are "initializing" and then
\* "unavailable" and no other; and unless the job is cancelled or another
\* stage fails, entrypoint does reach Listening.
AvatarHangIsBounded ==
    /\ [](env.avatar = "hangs" =>
            /\ \A k \in 1..Len(broadcasts) : broadcasts[k] # <<"avatar", "ready">>
            /\ epc = "avatar_wait" => clock <= AvatarTimeout
            /\ epc = "listening" =>
                 AvatarStatuses = << <<"avatar", "initializing">>,
                                     <<"avatar", "unavailable">> >>)
    /\ (env.avatar = "hangs" /\ ~env.cancels /\ ~env.faults) =>
            <>(epc = "listening")

AvatarHangIsBoundedWitness ==
    /\ env.avatar = "hangs"
    /\ avatar_task = "timed_out"
    /\ clock = AvatarTimeout
    /\ epc = "listening"

\* C10: the greeting is not started before session.start has returned, nor
\* while avatar.start is pending: whenever session.say has been called,
\* the session has started and the avatar task has ended (returned, raised,
\* or been cancelled by the timeout).
GreetingAfterStartAndAvatar ==
    greeting # "none"
        => /\ session_started
           /\ avatar_task \in {"done", "failed", "timed_out"}

GreetingAfterStartAndAvatarWitness ==
    /\ greeting = "said"
    /\ avatar_task = "timed_out"
    /\ epc = "listening"

\* The awaits of entrypoint in the order of the program text, those of the
\* alternative branches of one statement together.  silero.VAD.load() and
\* Agent(...) (agent.py:299-311) have no await of their own: they run in the
\* step that leaves the store check's last broadcast, before session.start
\* is awaited.
StartupOrder ==
    << {"create_session"}, {"connect"}, {"wait_for_participant"},
       {"bc_stt_init"}, {"bc_stt_ready"},
       {"bc_llm_init"}, {"bc_llm_ready"},
       {"bc_tts_init"}, {"bc_tts_ready"},
       {"bc_database_init"}, {"bc_database_ready", "bc_database_error"},
       {"session_start"}, {"sleep_after_start"},
       {"bc_avatar_init"}, {"avatar_wait"},
       {"bc_avatar_ready", "bc_avatar_unavailable", "bc_avatar_error"},
       {"sleep_avatar"}, {"sleep_before_greeting"},
       {"say"}, {"listening"}, {"exited"} >>

Rank(at) == CHOOSE i \in 1..Len(StartupOrder) : at \in StartupOrder[i]

\* The stages in their order, each with the awaits that belong to it.
StageOrder == <<"idle", "stt", "llm", "tts", "store check", "vad",
                "session start", "avatar attempt", "greeting", "listening">>

StageAt(at) ==
    CASE at \in {"create_session", "connect", "wait_for_participant"} -> "idle"
      [] at \in {"bc_stt_init", "bc_stt_ready"} -> "stt"
      [] at \in {"bc_llm_init", "bc_llm_ready"} -> "llm"
      [] at \in {"bc_tts_init", "bc_tts_ready"} -> "tts"
      [] at \in {"bc_database_init", "bc_database_ready", "bc_database_error"}
            -> "store check"
      [] at \in {"session_start", "sleep_after_start"} -> "session start"
      [] at \in {"bc_avatar_init", "avatar_wait", "bc_avatar_ready",
                 "bc_avatar_unavailable", "bc_avatar_error", "sleep_avatar",
                 "sleep_before_greeting"} -> "avatar attempt"
      [] at = "say" -> "greeting"
      [] at = "listening" -> "listening"

StageRank(stage) == CHOOSE i \in 1..Len(StageOrder) : StageOrder[i] = stage

\* The stages on the way from one stage to a later one, VAD among them.
StagesBetween(from, to) ==
    {StageOrder[i] : i \in (StageRank(from) + 1)..(StageRank(to) - 1)}

ComponentOrder == <<"stt", "llm", "tts", "database", "avatar">>

ComponentRank(component) ==
    CHOOSE i \in 1..Len(ComponentOrder) : ComponentOrder[i] = component

\* C11: startup is one pass in the order STT, LLM, TTS, store check, VAD,
\* session start, avatar attempt, greeting, Listening: entrypoint only moves
\* forward through its awaits, never back to one it has left; it leaves a
\* stage only for the next stage (passing, between the store check and
\* session start, the VAD load and nothing else) or to exit; and no status
\* is broadcast twice, nor a component's status after a later component's.
SinglePassStep ==
    epc' # epc =>
        /\ epc # "exited"
        /\ Rank(epc') > Rank(epc)
        /\ (epc' # "exited" /\ StageAt(epc') # StageAt(epc)) =>
              StagesBetween(StageAt(epc), StageAt(epc')) \subseteq {"vad"}

StartupIsSinglePass ==
    /\ [][SinglePassStep]_vars
    /\ [](\A i, j \in 1..Len(broadcasts) :
            i < j => /\ broadcasts[i] # broadcasts[j]
                     /\ ComponentRank(broadcasts[i][1])
                            <= ComponentRank(broadcasts[j][1]))

\* A startup in which the avatar stage failed, after the store check had
\* failed too, has still reached Listening.
StartupIsSinglePassWitness ==
    /\ epc = "listening"
    /\ avatar_task = "timed_out"
    /\ \E k \in 1..Len(broadcasts) : broadcasts[k] = <<"database", "error">>
    /\ Len(broadcasts) = Len(ComponentOrder) + Len(ComponentOrder)

\* The stages that are to be bracketed by broadcasts, each with the await
\* entrypoint is at just before the stage's work begins.
BracketedStages ==
    [stage \in {"stt", "llm", "tts", "store check", "vad", "session start",
                "avatar attempt"} |->
        CASE stage = "stt" -> "bc_stt_init"
          [] stage = "llm" -> "bc_llm_init"
          [] stage = "tts" -> "bc_tts_init"
          [] stage = "store check" -> "bc_database_init"
          [] stage = "vad" -> "bc_database_ready"
          [] stage = "session start" -> "bc_database_ready"
          [] stage = "avatar attempt" -> "bc_avatar_init"]

\* The stages whose work has begun.
StagesBegun ==
    {stage \in DOMAIN BracketedStages :
        epc # "exited" /\ Rank(epc) > Rank(BracketedStages[stage])}

Broadcast(statuses) ==
    {k \in 1..Len(broadcasts) : broadcasts[k][2] \in statuses}

\* C22: every stage whose work has begun has had its "initializing"
\* broadcast, and every stage before the one that began last has had its
\* "ready" or error-style broadcast as well: there are as many "initializing"
\* broadcasts as stages begun, and as many closing broadcasts as stages
\* begun but the last.
StagesAreBracketed ==
    StagesBegun # {} =>
        /\ Cardinality(Broadcast({"initializing"})) = Cardinality(StagesBegun)
        /\ Cardinality(Broadcast({"ready", "error", "unavailable"}))
              >= Cardinality(StagesBegun) - 1

\* The probe has run: "database initializing" has been broadcast and
\* get_session has returned or raised.
ProbeStep == epc = "bc_database_init" /\ broadcasts' # broadcasts

\* The broadcast that follows the probe completes.
ProbeBroadcastStep ==
    /\ epc \in {"bc_database_ready", "bc_database_error"}
    /\ broadcasts' # broadcasts

ProbeFailed ==
    \E k \in 1..Len(broadcasts) : broadcasts[k] = <<"database", "error">>

\* C23: the probe never ends entrypoint: after it "database ready" (the probe
\* returned) or "database error" (the probe raised) is broadcast, after
\* either broadcast the sequence goes on to the VAD load and the session
\* start, and from a failed probe the greeting is sent unless a later stage
\* raises or the job is cancelled.
ProbeFailureIsNotFatal ==
    /\ [][/\ ProbeStep => epc' \in {"bc_database_ready", "bc_database_error"}
          /\ ProbeBroadcastStep =>
                /\ broadcasts' = Append(broadcasts,
                       <<"database",
                         IF epc = "bc_database_ready" THEN "ready" ELSE "error">>)
                /\ epc' \in {"session_start", "exited"}]_vars
    /\ (epc = "bc_database_error") ~> (greeting = "said" \/ epc = "exited")

ProbeFailureIsNotFatalWitness ==
    /\ ProbeFailed
    /\ session_started
    /\ avatar_task # "not started"
    /\ greeting = "said"
    /\ epc = "listening"

\* C24: whatever the store does, the create of the session record at the
\* start of the call does not end entrypoint: the sequence goes on to connect
\* (and from there to the greeting and the wait).
StoreOutageIsNotFatal ==
    [][(epc = "create_session" /\ epc' # epc) => epc' = "connect"]_vars

-----------------------------------------------------------------------------
(* Properties of the chat context (under ChatSpec) *)

\* The message of the context that a row of "messages" was saved from.
SavedFrom(row) == chat_ctx[row.content[1]][row.content[2]]

\* C25: every row of "messages" was saved from a message that was added while
\* the context's user_id was set, and carries that user_id (the id of a row
\* of "users") and the message's role: a message added while user_id was not
\* set (the system prompt, every turn before identification or enrollment)
\* has no row, then or later.
MessagesSavedOnlyWhenBound ==
    \A k \in 1..Len(messages) :
        /\ messages[k].content[2] \in 1..Len(chat_ctx[messages[k].content[1]])
        /\ SavedFrom(messages[k]).added_as # Null
        /\ messages[k].user_id = SavedFrom(messages[k]).added_as
        /\ messages[k].role = SavedFrom(messages[k]).role
        /\ \E u \in 1..Len(users) : users[u].id = messages[k].user_id

\* The call was identified after its first turn: the turn that followed was
\* saved, and with every task run the prompt and the first turn have no row.
MessagesSavedOnlyWhenBoundWitness ==
    /\ Len(chat_ctx[ThisCall]) = MaxMsgs
    /\ chat_ctx[ThisCall][1].added_as = Null
    /\ chat_ctx[ThisCall][2].added_as = Null
    /\ chat_user_id[ThisCall] # Null
    /\ save_tasks = {}
    /\ Len(messages) = 1
    /\ messages[1].content = <<ThisCall, MaxMsgs>>
    /\ messages[1].user_id = chat_user_id[ThisCall]

\* C27: entrypoint leaves the wait on the event only when the job is
\* cancelled, and in that step delete_session runs for the call's session_id
\* and entrypoint ends; delete_session runs at no other step, so at most once.
ListeningEndsOnlyByCancel ==
    /\ [](deletes <= 1)
    /\ [][/\ (epc = "listening" /\ epc' # epc) =>
                /\ env.cancels
                /\ epc' = "exited"
                /\ deletes' = deletes + 1
                /\ \/ session_memory' = delete_session(session_memory, ThisCall)
                   \/ env.faults /\ session_memory' = session_memory
          /\ deletes' # deletes => epc = "listening"]_vars

ListeningEndsOnlyByCancelWitness ==
    /\ epc = "exited"
    /\ greeting = "said"
    /\ deletes = 1
    /\ session_memory[ThisCall] = Absent

====
